---------------------------- MODULE Spec2Model ----------------------------
(***************************************************************************)
(* SVMPCA.ipynb: an SVM on PCA-reduced MNIST against an SVM on the         *)
(* standardized raw pixels.  The notebook is run top to bottom ("Run       *)
(* All"); every statement of its four code cells is one action, and the    *)
(* kernel namespace (the notebook's global variables) is the state.        *)
(*                                                                         *)
(* The numerical libraries are modelled by what their calls return:        *)
(*  - arrays are sequences of rows; a feature row is [row, x] and a label  *)
(*    is [row, y], where `row` is the position of the dataset row it was   *)
(*    taken from (pandas keeps it as the index of mnist.target; for the    *)
(*    ndarrays it is a history field no operation reads);                   *)
(*  - a standardized pixel (x - mean)/std is kept exactly, as the pair     *)
(*    <<n*x - S, n*Q - S*S>> (S, Q the column's sum and sum of squares);   *)
(*  - a principal-component score and a reconstructed pixel are kept as    *)
(*    terms naming the fitted basis and the row they were computed from;   *)
(*  - the pseudo-random generators are a linear congruential generator     *)
(*    driving numpy's Fisher-Yates shuffle;                                *)
(*  - the SVM solver's result is any decision function over the feature    *)
(*    vectors with values among the training classes.                      *)
(***************************************************************************)
EXTENDS Integers, Sequences, FiniteSets, TLC

(***************************************************************************)
(* Bounds.  The notebook's sizes are scaled down: 70000 samples, 784 =     *)
(* 28 x 28 pixels, 100 components.                                         *)
(***************************************************************************)
NumRows == 6          \* largest dataset fetch_openml may return
sample_size == 5      \* line 79 (70000 in the notebook)
n_components == 2     \* line 75 (100 in the notebook)
ImageSide == 2        \* line 125 (28 in the notebook)
MaxEntropy == 2       \* number of seeds the OS may give numpy's global generator

(***************************************************************************)
(* Program constants.                                                      *)
(***************************************************************************)
NumPanels == 5        \* line 123: plt.subplots(1, 5), range(5)
test_size_pct == 20   \* line 85: test_size=0.2
random_state == 42    \* line 85: random_state=42

n_pixels == ImageSide * ImageSide
Classes == {"0", "1"}                  \* mnist.target holds digit strings

\* The images the model's datasets are made of: image k inks pixel k only.
Image(k) == [j \in 1..n_pixels |-> IF j = k THEN 1 ELSE 0]
Images == {Image(1), Image(2)}

-----------------------------------------------------------------------------
(***************************************************************************)
(* Sequence helpers.                                                       *)
(***************************************************************************)
Range(s) == {s[i] : i \in DOMAIN s}

Min(a, b) == IF a < b THEN a ELSE b

RECURSIVE SumSeq(_)
SumSeq(s) == IF s = <<>> THEN 0 ELSE Head(s) + SumSeq(Tail(s))

\* s[idx[1]], s[idx[2]], ...  (numpy fancy indexing a[idx])
Take(s, idx) == [k \in 1..Len(idx) |-> s[idx[k]]]

Swap(s, i, j) == [s EXCEPT ![i] = s[j], ![j] = s[i]]

Err(type, line) == [type |-> type, line |-> line]

-----------------------------------------------------------------------------
(***************************************************************************)
(* numpy.random: generator state and permutation.                          *)
(***************************************************************************)
LcgNext(s) == (s * 75 + 74) % 65537

\* RandomState(seed)
Seeded(seed) == seed % 65537

\* Fisher-Yates from the last position down, as numpy's shuffle does:
\* for i = n-1 .. 1: j = random integer in [0, i]; swap a[i], a[j].
\* Positions here are 1-based.  Returns [perm, state].
RECURSIVE Shuffle(_, _, _)
Shuffle(a, i, s) ==
    IF i <= 1 THEN [perm |-> a, state |-> s]
    ELSE LET s1 == LcgNext(s)
             j  == ((s1 \div 256) % i) + 1
         IN  Shuffle(Swap(a, i, j), i - 1, s1)

Permutation(n, s) == Shuffle([k \in 1..n |-> k], n, s)

-----------------------------------------------------------------------------
(***************************************************************************)
(* fetch_openml('mnist_784', version=1): the datasets the server may hold. *)
(* A dataset is n rows of (image, label); rows are listed image by image   *)
(* and, within an image, label by label.                                   *)
(***************************************************************************)
Kind(image, label) == IF image = Image(1)
                      THEN (IF label = "0" THEN 1 ELSE 2)
                      ELSE (IF label = "0" THEN 3 ELSE 4)

Bunch(n) ==
    { b \in [data : [1..n -> Images], target : [1..n -> Classes]] :
        \A i \in 1..(n - 1) :
            Kind(b.data[i], b.target[i]) <= Kind(b.data[i + 1], b.target[i + 1]) }

Datasets == UNION { Bunch(n) : n \in 1..NumRows }

-----------------------------------------------------------------------------
(***************************************************************************)
(* sklearn.preprocessing.StandardScaler                                    *)
(***************************************************************************)
Column(X, j) == [i \in 1..Len(X) |-> X[i][j]]
Squares(c) == [i \in 1..Len(c) |-> c[i] * c[i]]

\* z = (x - mean) / std, exactly: (n x - S) / sqrt(n Q - S^2).  A column of
\* zero variance is divided by 1 and becomes 0 = <<0, 0>>.
Standardize(X, i, j) ==
    LET n == Len(X)
        S == SumSeq(Column(X, j))
        Q == SumSeq(Squares(Column(X, j)))
    IN  <<n * X[i][j] - S, n * Q - S * S>>

StandardScaler_fit_transform(X) ==
    [i \in 1..Len(X) |->
        [row |-> i, x |-> [j \in 1..Len(X[i]) |-> Standardize(X, i, j)]]]

-----------------------------------------------------------------------------
(***************************************************************************)
(* sklearn.decomposition.PCA                                               *)
(***************************************************************************)
\* fit_rows is a history field: the dataset rows the basis was computed from.
PCA(n) == [n_components |-> n, fitted |-> FALSE, basis |-> 0,
           n_features_in_ |-> 0, fit_rows |-> {}]

\* The k-th score of vector x on the basis of fit number `basis`.
Score(basis, k, x) == <<"pc", basis, k, x>>

\* Faulty variant: n_components is ignored and every component is kept
\* (min(n_samples, n_features) columns), as with PCA() without arguments.
PCA_fit_transform_all(pca, X) ==
    LET n == Len(X)
        d == IF n = 0 THEN 0 ELSE Len(X[1].x)
        b == pca.basis + 1
    IN  IF pca.n_components > Min(n, d)
        THEN [ok |-> FALSE, error |-> "ValueError"]
        ELSE [ok |-> TRUE,
              model |-> [pca EXCEPT !.fitted = TRUE, !.basis = b,
                                    !.n_features_in_ = d,
                                    !.fit_rows = {X[i].row : i \in 1..n}],
              out |-> [i \in 1..n |->
                         [row |-> X[i].row,
                          x |-> [k \in 1..Min(n, d) |-> <<"pc", b, k, X[i].x>>]]]]

\* Faulty variant: the basis is computed from the leading 80% of the rows
\* only, pca.fit(X[:n_fit]).transform(X), the rest being held out.
PCA_fit_transform_head(pca, X) ==
    LET n == Len(X)
        d == IF n = 0 THEN 0 ELSE Len(X[1].x)
        b == pca.basis + 1
        n_fit == n - ((n * 20 + 99) \div 100)
    IN  IF pca.n_components > Min(n_fit, d)
        THEN [ok |-> FALSE, error |-> "ValueError"]
        ELSE [ok |-> TRUE,
              model |-> [pca EXCEPT !.fitted = TRUE, !.basis = b,
                                    !.n_features_in_ = d,
                                    !.fit_rows = {X[i].row : i \in 1..n_fit}],
              out |-> [i \in 1..n |->
                         [row |-> X[i].row,
                          x |-> [k \in 1..pca.n_components |->
                                    <<"pc", b, k, X[i].x>>]]]]

\* fit_transform: fits on X and projects X.  n_components must not exceed
\* min(n_samples, n_features).
PCA_fit_transform(pca, X) ==
    LET n == Len(X)
        d == IF n = 0 THEN 0 ELSE Len(X[1].x)
        b == pca.basis + 1
    IN  IF pca.n_components > Min(n, d)
        THEN [ok |-> FALSE, error |-> "ValueError"]
        ELSE [ok |-> TRUE,
              model |-> [pca EXCEPT !.fitted = TRUE, !.basis = b,
                                    !.n_features_in_ = d,
                                    !.fit_rows = {X[i].row : i \in 1..n}],
              out |-> [i \in 1..n |->
                         [row |-> X[i].row,
                          x |-> [k \in 1..pca.n_components |->
                                    Score(b, k, X[i].x)]]]]

\* The j-th pixel rebuilt from the scores s on the basis of fit `basis`.
Rebuilt(basis, j, s) == <<"px", basis, j, s>>

\* Faulty variant: the model is fit again before the inverse projection, so
\* the rows are rebuilt on another basis than they were projected on.
PCA_inverse_transform_refit(pca, X) ==
    IF ~pca.fitted THEN [ok |-> FALSE, error |-> "NotFittedError"]
    ELSE [ok |-> TRUE,
          out |-> [i \in 1..Len(X) |->
                     [row |-> X[i].row,
                      x |-> [j \in 1..pca.n_features_in_ |->
                                Rebuilt(pca.basis + 1, j, X[i].x)]]]]

\* Faulty variant: the scores are handed back without being projected back.
PCA_inverse_transform_identity(pca, X) ==
    IF ~pca.fitted THEN [ok |-> FALSE, error |-> "NotFittedError"]
    ELSE [ok |-> TRUE, out |-> X]

PCA_inverse_transform(pca, X) ==
    IF ~pca.fitted THEN [ok |-> FALSE, error |-> "NotFittedError"]
    ELSE IF \E i \in 1..Len(X) : Len(X[i].x) # pca.n_components
    THEN [ok |-> FALSE, error |-> "ValueError"]
    ELSE [ok |-> TRUE,
          out |-> [i \in 1..Len(X) |->
                     [row |-> X[i].row,
                      x |-> [j \in 1..pca.n_features_in_ |->
                                Rebuilt(pca.basis, j, X[i].x)]]]]

-----------------------------------------------------------------------------
(***************************************************************************)
(* numpy.random.choice(n, size, replace=False) on the global generator:    *)
(* permutation(n)[:size].                                                  *)
(***************************************************************************)
choice(n, size, state) ==
    IF size > n THEN [ok |-> FALSE, error |-> "ValueError"]
    ELSE LET p == Permutation(n, state)
         IN  [ok |-> TRUE, out |-> SubSeq(p.perm, 1, size), state |-> p.state]

(***************************************************************************)
(* sklearn.model_selection.train_test_split(X, y, test_size, random_state) *)
(***************************************************************************)
Ceil(num, den) == (num + den - 1) \div den

\* Faulty variant: the train slice starts one position early and so takes
\* the last test row as well.
train_test_split_overlap(X, y, pct, seed) ==
    LET n       == Len(X)
        n_test  == Ceil(n * pct, 100)
        n_train == n - n_test
        p       == Permutation(n, Seeded(seed)).perm
        test    == SubSeq(p, 1, n_test)
        train   == SubSeq(p, n_test, n_test + n_train)
    IN  IF Len(y) # n \/ n_train <= 0 \/ n_test <= 0
        THEN [ok |-> FALSE, error |-> "ValueError"]
        ELSE [ok |-> TRUE,
              X_train |-> Take(X, train), X_test |-> Take(X, test),
              y_train |-> Take(y, train), y_test |-> Take(y, test)]

train_test_split(X, y, pct, seed) ==
    LET n       == Len(X)
        n_test  == Ceil(n * pct, 100)
        n_train == n - n_test
        p       == Permutation(n, Seeded(seed)).perm
        test    == SubSeq(p, 1, n_test)
        train   == SubSeq(p, n_test + 1, n_test + n_train)
    IN  IF Len(y) # n \/ n_train <= 0 \/ n_test <= 0
        THEN [ok |-> FALSE, error |-> "ValueError"]
        ELSE [ok |-> TRUE,
              X_train |-> Take(X, train), X_test |-> Take(X, test),
              y_train |-> Take(y, train), y_test |-> Take(y, test)]

-----------------------------------------------------------------------------
(***************************************************************************)
(* sklearn.svm.SVC                                                         *)
(***************************************************************************)
\* SVC(kernel='rbf', C=5, gamma=0.05, random_state=42); gamma in hundredths.
SVC_params == [kernel |-> "rbf", C |-> 5, gamma_pct |-> 5, random_state |-> 42]

SVC(params) == [params |-> params, fitted |-> FALSE, n_features_in_ |-> 0,
                classes_ |-> {}, decision |-> <<>>]

Vectors(X) == {X[i].x : i \in 1..Len(X)}
Labels(y) == {y[i].y : i \in 1..Len(y)}

\* What libsvm may return for training labels y: a decision function on the
\* feature space, with values among the classes of y.
DecisionFunctions(space, y) == [space -> Labels(y)]

\* fit(X, y) with the solver returning the decision function f.
SVC_fit(clf, X, y, f) ==
    IF Len(X) # Len(y) \/ Len(X) = 0 \/ Cardinality(Labels(y)) < 2
    THEN [ok |-> FALSE, error |-> "ValueError"]
    ELSE [ok |-> TRUE,
          model |-> [clf EXCEPT !.fitted = TRUE,
                                !.n_features_in_ = Len(X[1].x),
                                !.classes_ = Labels(y),
                                !.decision = f]]

\* Faulty variant: the number of columns is not checked; a row of another
\* length is given some class.
SVC_predict_unchecked(clf, X) ==
    IF ~clf.fitted THEN [ok |-> FALSE, error |-> "NotFittedError"]
    ELSE [ok |-> TRUE,
          out |-> [i \in 1..Len(X) |->
                     IF Len(X[i].x) = clf.n_features_in_
                     THEN clf.decision[X[i].x]
                     ELSE CHOOSE c \in clf.classes_ : TRUE]]

SVC_predict(clf, X) ==
    IF ~clf.fitted THEN [ok |-> FALSE, error |-> "NotFittedError"]
    ELSE IF \E i \in 1..Len(X) : Len(X[i].x) # clf.n_features_in_
    THEN [ok |-> FALSE, error |-> "ValueError"]
    ELSE [ok |-> TRUE, out |-> [i \in 1..Len(X) |-> clf.decision[X[i].x]]]

-----------------------------------------------------------------------------
(***************************************************************************)
(* sklearn.metrics.accuracy_score and the printed percentage               *)
(***************************************************************************)
RECURSIVE Gcd(_, _)
Gcd(a, b) == IF b = 0 THEN a ELSE Gcd(b, a % b)

\* The quotient a / b as a value: a fraction in lowest terms.
Quotient(a, b) == LET g == Gcd(a, b) IN [num |-> a \div g, den |-> b \div g]

\* Faulty variant: the true labels are compared with themselves.
Matches_self(y_true, y_pred) ==
    Cardinality({i \in 1..Len(y_true) : y_true[i].y = y_true[i].y})

\* Number of positions where the true label and the prediction agree.
Matches(y_true, y_pred) ==
    Cardinality({i \in 1..Len(y_true) : y_true[i].y = y_pred[i]})

\* Faulty variant: normalize=False, the count of matches instead of the
\* fraction.
accuracy_score_count(y_true, y_pred) ==
    IF Len(y_true) # Len(y_pred)
    THEN [ok |-> FALSE, error |-> "ValueError"]
    ELSE [ok |-> TRUE, out |-> [num |-> Matches(y_true, y_pred), den |-> 1]]

accuracy_score(y_true, y_pred) ==
    IF Len(y_true) # Len(y_pred)
    THEN [ok |-> FALSE, error |-> "ValueError"]
    ELSE IF Len(y_true) = 0
    THEN [ok |-> TRUE, out |-> [num |-> 0, den |-> 0]]      \* nan
    ELSE [ok |-> TRUE, out |-> Quotient(Matches(y_true, y_pred), Len(y_true))]

\* f"{a * 100:.2f}%": a * 100 rounded to hundredths, ties to even; the result
\* is the number of hundredths of a percent.
Percent2f(a) ==
    LET n == a.num * 10000
        q == n \div a.den
        r == n % a.den
    IN  IF 2 * r > a.den \/ (2 * r = a.den /\ q % 2 = 1) THEN q + 1 ELSE q

-----------------------------------------------------------------------------
(***************************************************************************)
(* matplotlib: the five panels of cell 3.                                  *)
(***************************************************************************)
\* v.reshape(r, c)
reshape(v, r, c) ==
    IF Len(v) # r * c THEN [ok |-> FALSE, error |-> "ValueError"]
    ELSE [ok |-> TRUE,
          out |-> [i \in 1..r |-> [j \in 1..c |-> v[(i - 1) * c + j]]]]

\* for idx, ax in zip(range(5), axes): ax.imshow(recon[idx].reshape(28, 28))
Panels(recon) ==
    IF Len(recon) < NumPanels THEN [ok |-> FALSE, error |-> "IndexError"]
    ELSE IF \E i \in 1..NumPanels : ~reshape(recon[i].x, ImageSide, ImageSide).ok
    THEN [ok |-> FALSE, error |-> "ValueError"]
    ELSE [ok |-> TRUE,
          out |-> [i \in 1..NumPanels |->
                     reshape(recon[i].x, ImageSide, ImageSide).out]]

-----------------------------------------------------------------------------
(***************************************************************************)
(* The notebook.                                                           *)
(***************************************************************************)
VARIABLES
    pc,         \* the statement to execute next, "done" or "failed"
    run,        \* which run of the notebook this is (a fresh kernel each)
    openml,     \* the dataset the server holds
    np_random,  \* state of numpy's global generator
    ns,         \* the kernel's namespace: variable name -> value
    stdout,     \* lines printed
    figure,     \* panels shown by plt.show()
    error,      \* the exception that ended the run, if any
    calls,      \* history: the estimator calls made so far in this run
    executed,   \* history: the statements executed so far in this run
    prev,       \* history: the partitions of the previous run
    probe       \* result of a predict call made outside the notebook

vars == <<pc, run, openml, np_random, ns, stdout, figure, error, calls,
          executed, prev, probe>>

\* Faulty variant: the prediction of line 92 placed before the fit of line 89.
Program_predict_first ==
    << "L68", "L71", "L72", "L75", "L76", "L79", "L80", "L81", "L82", "L85",
       "L88", "L92", "L89", "L95", "L96",
       "L120", "L123",
       "L152", "L155", "L158", "L159", "L163", "L166", "L167",
       "L186", "L189", "L190", "L193", "L196", "L197" >>

\* Faulty variant: cell 3 (the reconstruction and its figure) placed after
\* cell 6, at the end of the notebook.
Program_visualizer_last ==
    << "L68", "L71", "L72", "L75", "L76", "L79", "L80", "L81", "L82", "L85",
       "L88", "L89", "L92", "L95", "L96",
       "L152", "L155", "L158", "L159", "L163", "L166", "L167",
       "L186", "L189", "L190", "L193", "L196", "L197",
       "L120", "L123" >>

\* The statements of the code cells, in "Run All" order, by source line.
Program ==
    << "L68", "L71", "L72", "L75", "L76", "L79", "L80", "L81", "L82", "L85",
       "L88", "L89", "L92", "L95", "L96",
       "L120", "L123",
       "L152", "L155", "L158", "L159", "L163", "L166", "L167",
       "L186", "L189", "L190", "L193", "L196", "L197" >>

Index(l) == CHOOSE i \in 1..Len(Program) : Program[i] = l

After(l) == IF Index(l) = Len(Program) THEN "done" ELSE Program[Index(l) + 1]

\* The stage a statement belongs to, after the comments that head the
\* statements in the cells.
Stage(l) ==
    CASE l = "L68" -> "Loader"
      [] l \in {"L71", "L72"} -> "Normalizer"
      [] l \in {"L75", "L76"} -> "Reducer"
      [] l \in {"L79", "L80", "L81", "L82", "L152"} -> "Sampler"
      [] l \in {"L85", "L155"} -> "Splitter"
      [] l \in {"L88", "L89", "L158", "L159"} -> "Fit"
      [] l \in {"L92", "L163", "L186", "L193"} -> "Predict"
      [] l \in {"L95", "L96", "L166", "L167",
                "L189", "L190", "L196", "L197"} -> "Evaluator"
      [] l \in {"L120", "L123"} -> "Visualizer"

NoNames == [k \in {} |-> 0]
NoError == [type |-> "none", line |-> "none"]
Defined(name) == name \in DOMAIN ns
Entropy == 0..(MaxEntropy - 1)

Event(op, obj, arg, line) == [op |-> op, obj |-> obj, arg |-> arg, line |-> line]

Init ==
    /\ pc = Program[1]
    /\ run = 1
    /\ openml \in Datasets
    /\ np_random \in {Seeded(e) : e \in Entropy}
    /\ ns = NoNames
    /\ stdout = <<>>
    /\ figure = <<>>
    /\ error = NoError
    /\ calls = <<>>
    /\ executed = <<>>
    /\ prev = <<>>
    /\ probe = <<>>

\* name = value, then on to the next statement.
Assign(l, name, value) ==
    /\ ns' = (name :> value) @@ ns
    /\ pc' = After(l)
    /\ error' = error

\* Faulty variant: the exception is swallowed (try: ... except: pass around
\* the statement) and the run goes on with the next statement.
Raise_continues(l, type) ==
    /\ pc' = After(l)
    /\ error' = Err(type, l)
    /\ ns' = ns

\* An uncaught exception: "Run All" stops, no later statement is executed.
Raise(l, type) ==
    /\ pc' = "failed"
    /\ error' = Err(type, l)
    /\ ns' = ns

\* name = r.out when the call returned, the exception r.error otherwise.
AssignResult(l, name, r) ==
    IF r.ok THEN Assign(l, name, r.out) ELSE Raise(l, r.error)

Report(l, text, a) ==
    /\ stdout' = Append(stdout, <<text, Percent2f(a)>>)
    /\ pc' = After(l)
    /\ UNCHANGED <<ns, error>>

\* Statement l, which reads the variables `names`: a NameError when one of
\* them is not defined, the statement's effect otherwise.
Exec(l, names, effect) ==
    /\ UNCHANGED <<run, openml, prev, probe>>
    /\ executed' = Append(executed, l)
    /\ IF names \subseteq DOMAIN ns
       THEN effect
       ELSE Raise(l, "NameError") /\ UNCHANGED <<np_random, stdout, figure, calls>>

\* target = clf.predict(arg)
PredictStmt(l, clf, arg, target) ==
    Exec(l, {clf, arg},
         /\ AssignResult(l, target, SVC_predict(ns[clf], ns[arg]))
         /\ calls' = Append(calls, Event("predict", clf, arg, l))
         /\ UNCHANGED <<np_random, stdout, figure>>)

\* clf.fit(X, y), the solver working on the feature space of `all`
FitStmt(l, clf, X, y, all) ==
    Exec(l, {clf, X, y, all},
         /\ \E f \in DecisionFunctions(Vectors(ns[all]), ns[y]) :
              LET r == SVC_fit(ns[clf], ns[X], ns[y], f)
              IN  IF r.ok THEN Assign(l, clf, r.model) ELSE Raise(l, r.error)
         /\ calls' = Append(calls, Event("fit", clf, X, l))
         /\ UNCHANGED <<np_random, stdout, figure>>)

\* target = accuracy_score(y_true, y_pred)
AccuracyStmt(l, y_true, y_pred, target) ==
    Exec(l, {y_true, y_pred},
         /\ AssignResult(l, target, accuracy_score(ns[y_true], ns[y_pred]))
         /\ UNCHANGED <<np_random, stdout, figure, calls>>)

\* print(f"<text>: {a * 100:.2f}%")
PrintStmt(l, text, a) ==
    Exec(l, {a},
         /\ Report(l, text, ns[a])
         /\ UNCHANGED <<np_random, figure, calls>>)

\* Xtr, Xte, ytr, yte = train_test_split(X, y, test_size=0.2, random_state=42)
SplitStmt(l, X, y, Xtr, Xte, ytr, yte) ==
    Exec(l, {X, y},
         /\ LET r == train_test_split(ns[X], ns[y], test_size_pct, random_state)
            IN  IF r.ok
                THEN /\ ns' = (Xtr :> r.X_train) @@ (Xte :> r.X_test) @@
                              (ytr :> r.y_train) @@ (yte :> r.y_test) @@ ns
                     /\ pc' = After(l)
                     /\ error' = error
                ELSE Raise(l, r.error)
         /\ UNCHANGED <<np_random, stdout, figure, calls>>)

-----------------------------------------------------------------------------
\* cell 2
L68_fetch_openml ==
    /\ pc = "L68"
    /\ Exec("L68", {},
         /\ Assign("L68", "mnist", openml)
         /\ UNCHANGED <<np_random, stdout, figure, calls>>)

\* the download fails
L68_fetch_openml_fails ==
    /\ pc = "L68"
    /\ Exec("L68", {},
         /\ Raise("L68", "URLError")
         /\ UNCHANGED <<np_random, stdout, figure, calls>>)

L71_StandardScaler ==
    /\ pc = "L71"
    /\ Exec("L71", {},
         /\ Assign("L71", "scaler", [fitted |-> FALSE])
         /\ UNCHANGED <<np_random, stdout, figure, calls>>)

L72_scaler_fit_transform ==
    /\ pc = "L72"
    /\ Exec("L72", {"scaler", "mnist"},
         /\ ns' = ("data" :> StandardScaler_fit_transform(ns["mnist"].data)) @@
                  ("scaler" :> [fitted |-> TRUE]) @@ ns
         /\ pc' = After("L72")
         /\ UNCHANGED <<error, np_random, stdout, figure, calls>>)

L75_PCA ==
    /\ pc = "L75"
    /\ Exec("L75", {},
         /\ Assign("L75", "pca", PCA(n_components))
         /\ UNCHANGED <<np_random, stdout, figure, calls>>)

L76_pca_fit_transform ==
    /\ pc = "L76"
    /\ Exec("L76", {"pca", "data"},
         /\ LET r == PCA_fit_transform(ns["pca"], ns["data"])
            IN  IF r.ok
                THEN /\ ns' = ("data_pca" :> r.out) @@ ("pca" :> r.model) @@ ns
                     /\ pc' = After("L76")
                     /\ error' = error
                ELSE Raise("L76", r.error)
         /\ calls' = Append(calls, Event("fit_transform", "pca", "data", "L76"))
         /\ UNCHANGED <<np_random, stdout, figure>>)

L79_sample_size ==
    /\ pc = "L79"
    /\ Exec("L79", {},
         /\ Assign("L79", "sample_size", sample_size)
         /\ UNCHANGED <<np_random, stdout, figure, calls>>)

L80_random_choice ==
    /\ pc = "L80"
    /\ Exec("L80", {"data_pca", "sample_size"},
         /\ LET r == choice(Len(ns["data_pca"]), ns["sample_size"], np_random)
            IN  IF r.ok
                THEN Assign("L80", "indices", r.out) /\ np_random' = r.state
                ELSE Raise("L80", r.error) /\ np_random' = np_random
         /\ UNCHANGED <<stdout, figure, calls>>)

L81_data_sampled ==
    /\ pc = "L81"
    /\ Exec("L81", {"data_pca", "indices"},
         /\ Assign("L81", "data_sampled", Take(ns["data_pca"], ns["indices"]))
         /\ UNCHANGED <<np_random, stdout, figure, calls>>)

\* Faulty variant: the labels are taken from the head of the dataset,
\* mnist.target[:sample_size], instead of at the indices drawn at line 80.
L82_target_head ==
    /\ pc = "L82"
    /\ Exec("L82", {"mnist", "sample_size"},
         /\ Assign("L82", "target_sampled",
                   [k \in 1..ns["sample_size"] |->
                      [row |-> k, y |-> ns["mnist"].target[k]]])
         /\ UNCHANGED <<np_random, stdout, figure, calls>>)

L82_target_sampled ==
    /\ pc = "L82"
    /\ Exec("L82", {"mnist", "indices"},
         /\ Assign("L82", "target_sampled",
                   [k \in 1..Len(ns["indices"]) |->
                      [row |-> ns["indices"][k],
                       y |-> ns["mnist"].target[ns["indices"][k]]]])
         /\ UNCHANGED <<np_random, stdout, figure, calls>>)

L85_train_test_split ==
    /\ pc = "L85"
    /\ SplitStmt("L85", "data_sampled", "target_sampled",
              "X_train", "X_test", "y_train", "y_test")

L88_SVC ==
    /\ pc = "L88"
    /\ Exec("L88", {},
         /\ Assign("L88", "svm_classifier", SVC(SVC_params))
         /\ UNCHANGED <<np_random, stdout, figure, calls>>)

L89_fit ==
    /\ pc = "L89"
    /\ FitStmt("L89", "svm_classifier", "X_train", "y_train", "data_pca")

L92_predict ==
    /\ pc = "L92"
    /\ PredictStmt("L92", "svm_classifier", "X_test", "y_pred")

L95_accuracy_score ==
    /\ pc = "L95"
    /\ AccuracyStmt("L95", "y_test", "y_pred", "accuracy")

L96_print ==
    /\ pc = "L96"
    /\ PrintStmt("L96", "Accuracy", "accuracy")

-----------------------------------------------------------------------------
\* cell 3
L120_inverse_transform ==
    /\ pc = "L120"
    /\ Exec("L120", {"pca", "data_sampled"},
         /\ AssignResult("L120", "mnist_reconstructed",
                         PCA_inverse_transform(ns["pca"], ns["data_sampled"]))
         /\ calls' = Append(calls, Event("inverse_transform", "pca",
                                         "data_sampled", "L120"))
         /\ UNCHANGED <<np_random, stdout, figure>>)

\* lines 123-128: subplots, the five imshow calls, suptitle, show
L123_show ==
    /\ pc = "L123"
    /\ Exec("L123", {"mnist_reconstructed"},
         /\ LET r == Panels(ns["mnist_reconstructed"])
            IN  IF r.ok
                THEN /\ figure' = r.out
                     /\ pc' = After("L123")
                     /\ UNCHANGED <<ns, error>>
                ELSE Raise("L123", r.error) /\ figure' = figure
         /\ UNCHANGED <<np_random, stdout, calls>>)

\* matplotlib cannot draw (no display backend)
L123_show_fails ==
    /\ pc = "L123"
    /\ Exec("L123", {"mnist_reconstructed"},
         /\ Raise("L123", "BackendError")
         /\ UNCHANGED <<np_random, stdout, figure, calls>>)

-----------------------------------------------------------------------------
\* cell 5
\* Faulty variant: the raw rows are taken from the head of the dataset,
\* data[:sample_size], instead of at the indices drawn at line 80.
L152_data_original_head ==
    /\ pc = "L152"
    /\ Exec("L152", {"data", "sample_size"},
         /\ Assign("L152", "data_original_sampled",
                   SubSeq(ns["data"], 1, ns["sample_size"]))
         /\ UNCHANGED <<np_random, stdout, figure, calls>>)

L152_data_original_sampled ==
    /\ pc = "L152"
    /\ Exec("L152", {"data", "indices"},
         /\ Assign("L152", "data_original_sampled", Take(ns["data"], ns["indices"]))
         /\ UNCHANGED <<np_random, stdout, figure, calls>>)

L155_train_test_split ==
    /\ pc = "L155"
    /\ SplitStmt("L155", "data_original_sampled", "target_sampled",
              "X_train_original", "X_test_original",
              "y_train_original", "y_test_original")

\* Faulty variant: the second classifier is created without C=5 and so with
\* the library's default, SVC(kernel='rbf', gamma=0.05, random_state=42): C=1.
L158_SVC_defaults ==
    /\ pc = "L158"
    /\ Exec("L158", {},
         /\ Assign("L158", "svm_classifier_original",
                   SVC([SVC_params EXCEPT !.C = 1]))
         /\ UNCHANGED <<np_random, stdout, figure, calls>>)

L158_SVC ==
    /\ pc = "L158"
    /\ Exec("L158", {},
         /\ Assign("L158", "svm_classifier_original", SVC(SVC_params))
         /\ UNCHANGED <<np_random, stdout, figure, calls>>)

L159_fit ==
    /\ pc = "L159"
    /\ FitStmt("L159", "svm_classifier_original", "X_train_original",
            "y_train_original", "data")

L163_predict ==
    /\ pc = "L163"
    /\ PredictStmt("L163", "svm_classifier_original", "X_test_original",
                "y_pred_original")

L166_accuracy_score ==
    /\ pc = "L166"
    /\ AccuracyStmt("L166", "y_test_original", "y_pred_original", "accuracy_original")

L167_print ==
    /\ pc = "L167"
    /\ PrintStmt("L167", "Accuracy on original data", "accuracy_original")

-----------------------------------------------------------------------------
\* cell 6
L186_predict ==
    /\ pc = "L186"
    /\ PredictStmt("L186", "svm_classifier_original", "X_train_original",
                "y_train_pred_original")

L189_accuracy_score ==
    /\ pc = "L189"
    /\ AccuracyStmt("L189", "y_train_original", "y_train_pred_original",
                 "accuracy_train_original")

L190_print ==
    /\ pc = "L190"
    /\ PrintStmt("L190", "Accuracy on original data (training set)",
              "accuracy_train_original")

L193_predict ==
    /\ pc = "L193"
    /\ PredictStmt("L193", "svm_classifier", "X_train", "y_train_pred_pca")

L196_accuracy_score ==
    /\ pc = "L196"
    /\ AccuracyStmt("L196", "y_train", "y_train_pred_pca", "accuracy_train_pca")

L197_print ==
    /\ pc = "L197"
    /\ PrintStmt("L197", "Accuracy on PCA data (training set)", "accuracy_train_pca")

-----------------------------------------------------------------------------
RowsOf(X) == [k \in 1..Len(X) |-> X[k].row]

\* The partitions a run has produced at line 85, if it got that far.
Partitions ==
    IF Defined("X_train")
    THEN <<[train |-> RowsOf(ns["X_train"]), test |-> RowsOf(ns["X_test"])]>>
    ELSE <<>>

\* Kernel > Restart & Run All: a new kernel, an empty namespace, and a global
\* generator seeded from the OS again.  The notebook is run twice, the second
\* run being compared with the first.
RestartRunAll ==
    /\ pc \in {"done", "failed"}
    /\ run = 1
    /\ run' = 2
    /\ pc' = Program[1]
    /\ np_random' \in {Seeded(e) : e \in Entropy}
    /\ ns' = NoNames
    /\ stdout' = <<>>
    /\ figure' = <<>>
    /\ error' = NoError
    /\ calls' = <<>>
    /\ executed' = <<>>
    /\ prev' = Partitions
    /\ UNCHANGED <<openml, probe>>

Next ==
    \/ L68_fetch_openml \/ L68_fetch_openml_fails
    \/ L71_StandardScaler \/ L72_scaler_fit_transform
    \/ L75_PCA \/ L76_pca_fit_transform
    \/ L79_sample_size \/ L80_random_choice
    \/ L81_data_sampled \/ L82_target_sampled
    \/ L85_train_test_split
    \/ L88_SVC \/ L89_fit \/ L92_predict \/ L95_accuracy_score \/ L96_print
    \/ L120_inverse_transform \/ L123_show \/ L123_show_fails
    \/ L152_data_original_sampled \/ L155_train_test_split
    \/ L158_SVC \/ L159_fit \/ L163_predict \/ L166_accuracy_score \/ L167_print
    \/ L186_predict \/ L189_accuracy_score \/ L190_print
    \/ L193_predict \/ L196_accuracy_score \/ L197_print

\* One run of the notebook, top to bottom.
Spec == Init /\ [][Next]_vars

\* The notebook run, and then run again.
NextRerun == Next \/ RestartRunAll

SpecRerun == Init /\ [][NextRerun]_vars

-----------------------------------------------------------------------------
(***************************************************************************)
(* predict as a function of its arguments: once the run has ended, either  *)
(* classifier is applied to any array of standardized pixels or of scores  *)
(* left in the namespace.                                                  *)
(***************************************************************************)
Classifiers == {"svm_classifier", "svm_classifier_original"}

Arrays == {"data", "data_pca", "data_sampled", "data_original_sampled",
           "X_train", "X_test", "X_train_original", "X_test_original"}

ProbePredict ==
    /\ pc \in {"done", "failed"}
    /\ probe = <<>>
    /\ \E c \in Classifiers \cap DOMAIN ns, a \in Arrays \cap DOMAIN ns :
         LET r == SVC_predict(ns[c], ns[a])
         IN  probe' = <<[clf |-> c, arg |-> a, ok |-> r.ok,
                         error |-> IF r.ok THEN "none" ELSE r.error,
                         labels |-> IF r.ok THEN r.out ELSE <<>>]>>
    /\ UNCHANGED <<pc, run, openml, np_random, ns, stdout, figure, error,
                   calls, executed, prev>>

NextProbe == Next \/ ProbePredict

SpecProbe == Init /\ [][NextProbe]_vars

-----------------------------------------------------------------------------
(***************************************************************************)
(* Properties.                                                             *)
(***************************************************************************)
Ended == pc \in {"done", "failed"}

\* C1: two runs with the same seed (42), sample size and split fraction over
\* the same dataset produce train and test partitions that contain exactly
\* the same dataset rows.
C1_SamePartitionsEveryRun ==
    (prev # <<>> /\ Defined("X_train")) =>
        /\ Range(RowsOf(ns["X_train"])) = Range(prev[1].train)
        /\ Range(RowsOf(ns["X_test"])) = Range(prev[1].test)

\* A split of `all` into `train` and `test`: no row in both, every row of
\* `all` in exactly one of them.
IsPartition(train, test, all) ==
    /\ Range(RowsOf(train)) \cap Range(RowsOf(test)) = {}
    /\ Range(RowsOf(train)) \cup Range(RowsOf(test)) = Range(RowsOf(all))
    /\ Len(train) + Len(test) = Len(all)
    /\ Cardinality(Range(RowsOf(all))) = Len(all)

\* C2: after the PCA-data split and after the raw-data split, the train and
\* test partitions share no row of the sampled subset and every row of the
\* sampled subset is in exactly one of them.
C2_SplitsPartitionTheSample ==
    /\ Defined("X_train") =>
         /\ IsPartition(ns["X_train"], ns["X_test"], ns["data_sampled"])
         /\ IsPartition(ns["y_train"], ns["y_test"], ns["target_sampled"])
    /\ Defined("X_train_original") =>
         /\ IsPartition(ns["X_train_original"], ns["X_test_original"],
                        ns["data_original_sampled"])
         /\ IsPartition(ns["y_train_original"], ns["y_test_original"],
                        ns["target_sampled"])

C2_BothSplitsDone ==
    /\ Defined("X_train_original")
    /\ Len(ns["X_test"]) >= 1 /\ Len(ns["X_train"]) >= 2
    /\ Len(ns["data_sampled"]) < Len(ns["data"])

Fits(c) == {i \in DOMAIN calls : calls[i].op = "fit" /\ calls[i].obj = c}
Predicts(c) == {i \in DOMAIN calls : calls[i].op = "predict" /\ calls[i].obj = c}

TrainedOn(c) == IF c = "svm_classifier" THEN "X_train" ELSE "X_train_original"
FitLine(c) == IF c = "svm_classifier" THEN "L89" ELSE "L159"

\* C3: each classifier is fit exactly once, at line 89 resp. 159 and on its
\* training partition, and every predict call on it comes after that fit.
C3_FitOnceBeforePredict ==
    \A c \in Classifiers :
        /\ Cardinality(Fits(c)) <= 1
        /\ \A i \in Fits(c) :
             calls[i].arg = TrainedOn(c) /\ calls[i].line = FitLine(c)
        /\ \A j \in Predicts(c) : \E i \in Fits(c) : i < j
        /\ (Predicts(c) # {} /\ ~Ended) => ns[c].fitted
        /\ pc = "done" => Cardinality(Fits(c)) = 1 /\ ns[c].fitted

C3_AllPredictsDone ==
    /\ pc = "done"
    /\ Cardinality(Predicts("svm_classifier")) = 2
    /\ Cardinality(Predicts("svm_classifier_original")) = 2

PcaFits == {i \in DOMAIN calls :
              calls[i].obj = "pca" /\ calls[i].op \in {"fit", "fit_transform"}}

\* The basis a row of scores was projected on, the basis a rebuilt row was
\* rebuilt with, and the scores it was rebuilt from.
ScoreBasis(r) == {r.x[k][2] : k \in 1..Len(r.x)}
RebuiltBasis(r) == {r.x[j][2] : j \in 1..Len(r.x)}
RebuiltFrom(r) == {r.x[j][4] : j \in 1..Len(r.x)}

Reduced == {"data_pca", "data_sampled", "X_train", "X_test"}

\* C4: the reduction model is fit exactly once; the reduced train rows, the
\* reduced test rows and the reconstruction all use the basis of that one
\* fit, and no fit comes between a projection and its inverse projection.
C4_OneBasis ==
    /\ Cardinality(PcaFits) <= 1
    /\ Defined("data_pca") => Cardinality(PcaFits) = 1 /\ ns["pca"].fitted
    /\ \A a \in Reduced \cap DOMAIN ns : \A i \in 1..Len(ns[a]) :
         ScoreBasis(ns[a][i]) = {ns["pca"].basis}
    /\ Defined("mnist_reconstructed") =>
         \A i \in 1..Len(ns["mnist_reconstructed"]) :
            /\ RebuiltBasis(ns["mnist_reconstructed"][i]) = {ns["pca"].basis}
            /\ RebuiltFrom(ns["mnist_reconstructed"][i]) = {ns["data_sampled"][i].x}
            /\ ScoreBasis(ns["data_sampled"][i]) =
                  RebuiltBasis(ns["mnist_reconstructed"][i])
    /\ \A j \in DOMAIN calls : calls[j].op = "inverse_transform" =>
         \A i \in PcaFits : i = 1 /\ i < j

C4_Reconstructed ==
    /\ Defined("mnist_reconstructed") /\ Defined("X_train")
    /\ Len(ns["mnist_reconstructed"]) = sample_size

\* C5: the output of the dimensionality reducer has exactly the configured
\* number of columns (100 in the notebook), whatever the input row count.
C5_ReducedColumns ==
    Defined("data_pca") =>
        /\ Len(ns["data_pca"]) = Len(ns["data"])
        /\ \A i \in 1..Len(ns["data_pca"]) : Len(ns["data_pca"][i].x) = n_components

C5_FewRowsReduced ==
    /\ Defined("data_pca")
    /\ Len(ns["data_pca"]) < sample_size

\* C6: every reconstructed vector has as many components as a raw feature
\* vector (784 in the notebook), so each of the five shown reshapes to a
\* square grid (28 x 28).
C6_ReconstructedPixels ==
    /\ Defined("mnist_reconstructed") =>
         \A i \in 1..Len(ns["mnist_reconstructed"]) :
            /\ Len(ns["mnist_reconstructed"][i].x) = Len(ns["mnist"].data[1])
            /\ Len(ns["mnist_reconstructed"][i].x) = ImageSide * ImageSide
    /\ (pc = "failed" /\ error.line = "L123") => error.type = "BackendError"
    /\ figure # <<>> =>
         /\ Len(figure) = NumPanels
         /\ \A p \in 1..Len(figure) :
              /\ Len(figure[p]) = ImageSide
              /\ \A i \in 1..ImageSide : Len(figure[p][i]) = ImageSide

C6_FigureShown == figure # <<>>

Scores ==
    { <<"accuracy", "y_test", "y_pred">>,
      <<"accuracy_original", "y_test_original", "y_pred_original">>,
      <<"accuracy_train_original", "y_train_original", "y_train_pred_original">>,
      <<"accuracy_train_pca", "y_train", "y_train_pred_pca">> }

Agree(y_true, y_pred) ==
    Cardinality({i \in DOMAIN y_true \cap DOMAIN y_pred : y_true[i].y = y_pred[i]})

\* C7: each of the four accuracies is the number of positions where the
\* predicted and the true label agree divided by the common length of the
\* two vectors, hence in [0, 1].
C7_AccuracyIsFractionOfMatches ==
    \A s \in Scores : Defined(s[1]) =>
        LET a == ns[s[1]]
            n == Len(ns[s[2]])
        IN  /\ Len(ns[s[3]]) = n
            /\ a.den > 0
            /\ a.num * n = Agree(ns[s[2]], ns[s[3]]) * a.den
            /\ 0 <= a.num /\ a.num <= a.den

C7_AllFourComputed ==
    /\ \A s \in Scores : Defined(s[1])
    /\ 0 < ns["accuracy_train_pca"].num
    /\ ns["accuracy_train_pca"].num < ns["accuracy_train_pca"].den

Mismatched(c, a) ==
    /\ ns[c].fitted
    /\ \E i \in 1..Len(ns[a]) : Len(ns[a][i].x) # ns[c].n_features_in_

Printed(text) == \E i \in DOMAIN stdout : stdout[i][1] = text

\* C9: a failure of the visualizer (cell 3) is not fatal: the run still
\* ends with the raw-data accuracy and the two training-set accuracies
\* computed and printed.
C9_VisualizerFailureIsolated ==
    (pc = "failed" /\ error.line \in {"L120", "L123"}) =>
        /\ Defined("accuracy_original")
        /\ Printed("Accuracy on original data")
        /\ Printed("Accuracy on original data (training set)")
        /\ Printed("Accuracy on PCA data (training set)")

One == [num |-> 1, den |-> 1]

\* C10 as stated: the accuracy on the training partition a classifier was
\* fit on is 1.0, for both classifiers and for every training partition.
C10_TrainAccuracyIsOne ==
    /\ Defined("accuracy_train_original") => ns["accuracy_train_original"] = One
    /\ Defined("accuracy_train_pca") => ns["accuracy_train_pca"] = One

\* Two rows with equal feature vectors and different labels.
Conflict(X, y) ==
    \E i, j \in 1..Len(X) : X[i].x = X[j].x /\ y[i].y # y[j].y

\* C10 as amended: when the training partition holds two rows with equal
\* feature vectors and different labels, the accuracy on it is below 1.0,
\* for both classifiers; it is 1.0 only if every training row is predicted
\* its own label.
C10_ConflictKeepsTrainAccuracyBelowOne ==
    /\ Defined("accuracy_train_original") =>
         /\ Conflict(ns["X_train_original"], ns["y_train_original"]) =>
               ns["accuracy_train_original"].num < ns["accuracy_train_original"].den
         /\ ns["accuracy_train_original"] = One =>
               \A i \in 1..Len(ns["X_train_original"]) :
                  ns["y_train_pred_original"][i] = ns["y_train_original"][i].y
    /\ Defined("accuracy_train_pca") =>
         /\ Conflict(ns["X_train"], ns["y_train"]) =>
               ns["accuracy_train_pca"].num < ns["accuracy_train_pca"].den
         /\ ns["accuracy_train_pca"] = One =>
               \A i \in 1..Len(ns["X_train"]) :
                  ns["y_train_pred_pca"][i] = ns["y_train"][i].y

C10_ConflictingTrainRows ==
    /\ Defined("accuracy_train_pca")
    /\ Conflict(ns["X_train"], ns["y_train"])
    /\ Conflict(ns["X_train_original"], ns["y_train_original"])

-----------------------------------------------------------------------------
IsPrefix(s, t) == Len(s) <= Len(t) /\ SubSeq(t, 1, Len(s)) = s

\* C12: the run either completes top to bottom or fails outright on the
\* first error: the statements executed are an initial part of the program,
\* each executed once; a run that ends without error has executed all of
\* them; an error ends the run at the statement that raised it, and from
\* then on no statement can be executed, the failed one included.
C12_FailsOutrightOnFirstError ==
    /\ IsPrefix(executed, Program)
    /\ \A i, j \in DOMAIN executed : executed[i] = executed[j] => i = j
    /\ pc = "done" => executed = Program /\ error = NoError
    /\ error # NoError <=> pc = "failed"
    /\ pc = "failed" =>
         /\ executed # <<>>
         /\ executed[Len(executed)] = error.line
         /\ ~ENABLED Next

\* The fit of line 89 fails (one class in the training partition) after the
\* ten statements before it have been executed.
C12_FitFailedMidway ==
    /\ pc = "failed"
    /\ error = Err("ValueError", "L89")
    /\ Defined("X_train") /\ Defined("svm_classifier")
    /\ ~Defined("y_pred") /\ ~Defined("mnist_reconstructed")
    /\ stdout = <<>>

-----------------------------------------------------------------------------
\* The stages of the statements s, a stage named once for each unbroken
\* stretch of its statements.
RECURSIVE StagesOf(_)
StagesOf(s) ==
    IF s = <<>> THEN <<>>
    ELSE IF Len(s) >= 2 /\ Stage(s[1]) = Stage(s[2]) THEN StagesOf(Tail(s))
    ELSE <<Stage(s[1])>> \o StagesOf(Tail(s))

StagesRun == StagesOf(executed)

Position(l) == CHOOSE i \in DOMAIN executed : executed[i] = l
Ran(l) == \E i \in DOMAIN executed : executed[i] = l

\* C13 as stated: the Visualizer runs only after an Evaluator step, and no
\* split, fit, predict or accuracy step runs after it.
C13_VisualizerRunsLast ==
    \A i \in DOMAIN executed : Stage(executed[i]) = "Visualizer" =>
        /\ \E h \in 1..(i - 1) : Stage(executed[h]) = "Evaluator"
        /\ \A j \in (i + 1)..Len(executed) :
              Stage(executed[j]) \notin {"Splitter", "Fit", "Predict", "Evaluator"}

\* The stages in the order the notebook runs them: the PCA-data run, the
\* Visualizer, the raw-data run from its sampling on, and the two
\* training-set evaluations.
StagesAsRun ==
    << "Loader", "Normalizer", "Reducer", "Sampler", "Splitter", "Fit",
       "Predict", "Evaluator",
       "Visualizer",
       "Sampler", "Splitter", "Fit", "Predict", "Evaluator",
       "Predict", "Evaluator", "Predict", "Evaluator" >>

\* C13 as amended: the stages run in the order Loader, Normalizer, Reducer,
\* Sampler, Splitter, fit, predict, Evaluator for the PCA-data run, then the
\* Visualizer, then Sampler, Splitter, fit, predict, Evaluator for the
\* raw-data run (which does not load, normalize or reduce again), then the
\* training-set predict and Evaluator steps of both classifiers; the
\* Visualizer runs after the PCA-data Evaluator and before the raw-data
\* split, fit, predict and accuracy steps.
C13_VisualizerBetweenTheTwoRuns ==
    /\ IsPrefix(StagesRun, StagesAsRun)
    /\ pc = "done" => StagesRun = StagesAsRun
    /\ \A l \in {"L120", "L123"} : Ran(l) =>
          /\ Ran("L95") /\ Ran("L96")
          /\ Position("L96") < Position(l)
          /\ \A m \in {"L155", "L159", "L163", "L166", "L167",
                        "L186", "L189", "L193", "L196"} :
                Ran(m) => Position(l) < Position(m)

C13_RawRunAfterFigure ==
    /\ pc = "done"
    /\ figure # <<>>
    /\ Ran("L123") /\ Ran("L155") /\ Ran("L166")
    /\ Position("L123") < Position("L155")

-----------------------------------------------------------------------------
\* C14: the dimensionality reduction is fit (line 76) before the data is
\* split (line 85), exactly once, and the rows it is fit on include every
\* row the split places in a test partition; the test rows are projected on
\* the basis computed from them.
C14_ReducerFitOnTestRows ==
    \A t \in {"X_test", "X_test_original"} : Defined(t) =>
        /\ Ran("L76") /\ Ran("L85")
        /\ Position("L76") < Position("L85")
        /\ \A i \in PcaFits : calls[i].line = "L76" /\ calls[i].arg = "data"
        /\ ns["pca"].fitted
        /\ Range(RowsOf(ns[t])) \subseteq ns["pca"].fit_rows
        /\ ns["pca"].fit_rows = Range(RowsOf(ns["data"]))
        /\ \A i \in 1..Len(ns["X_test"]) :
              ScoreBasis(ns["X_test"][i]) = {ns["pca"].basis}

\* Both splits done on a dataset with more rows than the sample: the fit
\* saw the test row, and a row that is in neither partition as well.
C14_TestRowSeenByFit ==
    /\ Defined("X_test_original")
    /\ Len(ns["data"]) > Len(ns["data_sampled"])
    /\ ns["X_test"] # <<>>
    /\ ns["X_test"][1].row \in ns["pca"].fit_rows
    /\ ns["X_test"][1].row > 1

-----------------------------------------------------------------------------
\* C15: the two classifiers have the same configuration, kernel rbf, C = 5,
\* gamma = 0.05 and seed 42, from their creation on: no fit and no predict
\* changes it.
C15_SameFixedConfiguration ==
    /\ \A c \in Classifiers \cap DOMAIN ns :
          /\ ns[c].params.kernel = "rbf"
          /\ ns[c].params.C = 5
          /\ ns[c].params.gamma_pct = 5
          /\ ns[c].params.random_state = 42
    /\ Classifiers \subseteq DOMAIN ns =>
          ns["svm_classifier"].params = ns["svm_classifier_original"].params

\* Both classifiers fit and used twice; what they learned differs, their
\* configuration does not.
C15_BothFitAndUsed ==
    /\ pc = "done"
    /\ ns["svm_classifier"].fitted /\ ns["svm_classifier_original"].fitted
    /\ ns["svm_classifier"].n_features_in_ #
          ns["svm_classifier_original"].n_features_in_
    /\ Cardinality(Predicts("svm_classifier")) = 2
    /\ Cardinality(Predicts("svm_classifier_original")) = 2
    /\ ns["y_pred"] # ns["y_pred_original"]

-----------------------------------------------------------------------------
\* C16: the PCA-data split and the raw-data split put the same dataset rows
\* in train and in test, position by position, and their label vectors are
\* equal, so the two classifiers are fit and scored on the same rows.
C16_SameRowsInBothSplits ==
    Defined("X_train_original") =>
        /\ RowsOf(ns["X_train_original"]) = RowsOf(ns["X_train"])
        /\ RowsOf(ns["X_test_original"]) = RowsOf(ns["X_test"])
        /\ ns["y_train_original"] = ns["y_train"]
        /\ ns["y_test_original"] = ns["y_test"]
        /\ RowsOf(ns["data_original_sampled"]) = RowsOf(ns["data_sampled"])

\* Both splits done on a sample that is not the head of the dataset in
\* dataset order; the rows agree while the feature vectors differ.
C16_ShuffledSampleSplitTwice ==
    /\ Defined("X_train_original")
    /\ ns["indices"] # [k \in 1..Len(ns["indices"]) |-> k]
    /\ ns["X_test"] # <<>> /\ Len(ns["X_train"]) >= 2
    /\ ns["X_train"][1].x # ns["X_train_original"][1].x
    /\ ns["X_train"][1].row # ns["X_train"][2].row

-----------------------------------------------------------------------------
\* The feature arrays of the two runs, each with its label vector.
Paired ==
    { <<"data_sampled", "target_sampled">>,
      <<"X_train", "y_train">>, <<"X_test", "y_test">>,
      <<"data_original_sampled", "target_sampled">>,
      <<"X_train_original", "y_train_original">>,
      <<"X_test_original", "y_test_original">> }

\* C17: feature rows and labels stay paired through sampling and splitting:
\* in the sample and in each train and test partition of both runs, the
\* label at a position is the label the dataset gives to the dataset row
\* the feature row at that position was derived from.
C17_LabelsFollowTheirRows ==
    \A p \in Paired : (Defined(p[1]) /\ Defined(p[2])) =>
        /\ Len(ns[p[1]]) = Len(ns[p[2]])
        /\ \A i \in 1..Len(ns[p[1]]) :
              /\ ns[p[2]][i].y = openml.target[ns[p[1]][i].row]
              /\ ns[p[2]][i].row = ns[p[1]][i].row
              /\ p[1] \in {"data_original_sampled", "X_train_original",
                            "X_test_original"} =>
                    ns[p[1]][i].x = ns["data"][ns[p[1]][i].row].x
              /\ p[1] \in {"data_sampled", "X_train", "X_test"} =>
                    ns[p[1]][i].x = ns["data_pca"][ns[p[1]][i].row].x

\* Both splits done on a sample drawn out of dataset order, with both
\* classes among the training labels and a sampled row whose label differs
\* from the label of the dataset row at its position in the sample.
C17_MixedLabelsSplit ==
    /\ Defined("y_test_original")
    /\ ns["indices"] # [k \in 1..Len(ns["indices"]) |-> k]
    /\ Labels(ns["y_train"]) = Classes
    /\ \E k \in 1..Len(ns["indices"]) :
          openml.target[k] # openml.target[ns["indices"][k]]

=============================================================================
